---- MODULE Spec2Model ----
(***************************************************************************)
(* Model of LLM-SQL/SQL_LLM_LangChain.py: the database bootstrap, the      *)
(* schema introspection (display_schema), the API key loading, and the     *)
(* question loop around process_question (prompt, LLM call, fence          *)
(* stripping, execution, report).                                          *)
(*                                                                         *)
(* Text is a sequence of characters (one string each), so that strip(),    *)
(* startswith(), endswith() and slicing are computed character by          *)
(* character.  The schema description is a sequence of lines.              *)
(***************************************************************************)
EXTENDS Naturals, Integers, Sequences, FiniteSets, TLC

VARIABLES
    pc,          \* position of the script: a setup step, "loop", "done" or "exit"
    exitCause,   \* which handler called exit(1); "none" while running
    loaded,      \* the tables the seed script created (sqlite_master, in order)
    db,          \* the tables of Chinook.db now
    artistCheck, \* outcome of the SELECT COUNT(*) FROM Artist check
    schema,      \* the global `schema` (line 89): a sequence of lines
    schemaFail,  \* where display_schema's enumeration raised (see DisplaySchemaText)
    schemaRaised,\* the exception display_schema caught; "none" if it caught none
    qi,          \* index of the loop's current question in `questions`
    stage,       \* position inside the current iteration of the loop
    prompt,      \* the input handed to chain.invoke for the current question
    completion,  \* the text chain.invoke returned for the current question
    llmRaised,   \* the exception chain.invoke raised for the current question
    sql_query,   \* local `sql_query` of process_question
    result,      \* local `result` of process_question
    execRaised,  \* the exception pd.read_sql_query raised for the current question
    llmCalls,    \* calls of chain.invoke made for the current question
    execCalls,   \* calls of pd.read_sql_query made for the current question
    printed      \* the questions the driver has printed, in print order

vars == <<pc, exitCause, loaded, db, artistCheck, schema, schemaFail,
          schemaRaised, qi, stage,
          prompt, completion, llmRaised, sql_query, result, execRaised, llmCalls,
          execCalls, printed>>

(***************************************************************************)
(* Bounds of the model.                                                    *)
(***************************************************************************)
\* A completion checked by the sanitizer is a concatenation of at most this
\* many pieces of Pieces.
MaxPieces == 5

\* The seed script creates at most this many tables.
MaxTables == 3

\* len(questions), lines 179-187.
NumQuestions == 7

(***************************************************************************)
(* Text: Python str operations on sequences of characters.                 *)
(***************************************************************************)
\* The whitespace characters str.strip() removes that occur in the model.
Whitespace == {" ", "\n"}

\* The backtick character (U+0060), which a TLA+ string cannot hold.
Backtick == "BACKTICK"

\* The three-character markdown fence.
Fence == <<Backtick, Backtick, Backtick>>

\* The fence with the "sql" language tag.
FenceSql == Fence \o <<"s", "q", "l">>

RECURSIVE LStrip(_)
LStrip(s) ==
    IF s = <<>> \/ Head(s) \notin Whitespace THEN s ELSE LStrip(Tail(s))

RECURSIVE RStrip(_)
RStrip(s) ==
    IF s = <<>> \/ s[Len(s)] \notin Whitespace
    THEN s
    ELSE RStrip(SubSeq(s, 1, Len(s) - 1))

\* str.strip()
Strip(s) == RStrip(LStrip(s))

\* s.startswith(p)
StartsWith(s, p) == Len(s) >= Len(p) /\ SubSeq(s, 1, Len(p)) = p

\* s.endswith(p)
EndsWith(s, p) == Len(s) >= Len(p) /\ SubSeq(s, Len(s) - Len(p) + 1, Len(s)) = p

\* s[lo:-hi] for lo >= 0, hi > 0: empty when the two cuts meet or cross.
PySlice(s, lo, hi) ==
    IF lo >= Len(s) - hi THEN <<>> ELSE SubSeq(s, lo + 1, Len(s) - hi)

\* Lines 156-159 without the inner strip(): the mutant of StripFence.
StripFenceNoTrim(q) ==
    IF q # <<>> /\ StartsWith(q, FenceSql) /\ EndsWith(q, Fence)
    THEN PySlice(q, 6, 3)
    ELSE IF q # <<>> /\ StartsWith(q, Fence) /\ EndsWith(q, Fence)
         THEN PySlice(q, 3, 3)
         ELSE q

\* Lines 156-159: remove the markdown code block markers from sql_query.
StripFence(q) ==
    IF q # <<>> /\ StartsWith(q, FenceSql) /\ EndsWith(q, Fence)
    THEN Strip(PySlice(q, 6, 3))
    ELSE IF q # <<>> /\ StartsWith(q, Fence) /\ EndsWith(q, Fence)
         THEN Strip(PySlice(q, 3, 3))
         ELSE q

\* Lines 152-159 as one function of the completion: the Response Sanitizer.
Sanitizer(t) == StripFence(Strip(t))

(***************************************************************************)
(* The database and the schema description.                                *)
(***************************************************************************)
\* The exceptions a failing call may raise, by their message.
Errors == {"E1", "E2"}

\* The tables a seed script may create, in creation order.  A table is its
\* sqlite_master name and its PRAGMA table_info rows (name, declared type).
Catalog ==
    << [name |-> "Artist",
        columns |-> << [name |-> "ArtistId", type |-> "INTEGER"],
                       [name |-> "Name", type |-> "NVARCHAR(120)"] >>],
       [name |-> "sqlite_sequence",
        columns |-> << [name |-> "name", type |-> ""],
                       [name |-> "seq", type |-> ""] >>],
       [name |-> "Album",
        columns |-> << [name |-> "AlbumId", type |-> "INTEGER"],
                       [name |-> "Title", type |-> "NVARCHAR(160)"],
                       [name |-> "ArtistId", type |-> "INTEGER"] >>],
       [name |-> "Genre",
        columns |-> << [name |-> "GenreId", type |-> "INTEGER"] >>] >>

CatalogNames == {Catalog[k].name : k \in 1..Len(Catalog)}

\* The databases executescript(sql_script) may leave behind (lines 37-40).
Databases ==
    {SelectSeq(Catalog, LAMBDA t : t.name \in S) :
        S \in {X \in SUBSET CatalogNames : Cardinality(X) <= MaxTables}}

\* Line 78 without the filter: the mutant of UserTables.
AllTables(d) == d

\* Line 78: the rows of sqlite_master other than sqlite_sequence.
UserTables(d) == SelectSeq(d, LAMBDA t : t.name # "sqlite_sequence")

\* Line 80: f"table: {table}\nColumns:\n"
HeaderLines(t) == << <<"table: ", t.name>>, <<"Columns:">> >>

\* Line 83: f"  - {column[1]} ({column[2]})\n"
ColumnLine(c) == <<"  - ", c.name, " (", c.type, ")">>

\* Lines 82-83: the column lines of one table.
ColumnLines(t) == [k \in 1..Len(t.columns) |-> ColumnLine(t.columns[k])]

\* Line 84: the empty line closing a table's block.
BlankLine == <<"">>

\* Line 86: f"Error extracting schema: {e}\n"
SchemaErrorLine(e) == <<"Error extracting schema: ", e>>

\* Lines 79-86 from the idx-th user table on.  The PRAGMA of the failAt-th
\* table raises: its header is already in the text, its columns are not.
RECURSIVE SchemaBlocks(_, _, _, _)
SchemaBlocks(ts, idx, failAt, e) ==
    IF ts = <<>>
    THEN <<>>
    ELSE HeaderLines(Head(ts)) \o
         (IF idx = failAt
          THEN <<SchemaErrorLine(e)>>
          ELSE ColumnLines(Head(ts)) \o <<BlankLine>> \o
               SchemaBlocks(Tail(ts), idx + 1, failAt, e))

\* display_schema whose handler assigns the message instead of appending it:
\* the mutant of DisplaySchemaText.
DisplaySchemaTextErrorOnly(d, failAt, e) ==
    IF failAt <= Len(UserTables(d))
    THEN <<SchemaErrorLine(e)>>
    ELSE SchemaBlocks(UserTables(d), 1, failAt, e)

\* display_schema, lines 75-87.  failAt = 0: the sqlite_master query raises;
\* failAt = k in 1..N: the PRAGMA of the k-th user table raises;
\* failAt = N + 1: nothing raises.
DisplaySchemaText(d, failAt, e) ==
    IF failAt = 0
    THEN <<SchemaErrorLine(e)>>
    ELSE SchemaBlocks(UserTables(d), 1, failAt, e)

(***************************************************************************)
(* The values process_question returns.                                    *)
(***************************************************************************)
\* Python's None, as the sql_query of a failed generation (line 154).
NoneValue == <<"None">>

\* A pd.DataFrame (line 161).
DataFrame == <<"DataFrame">>

\* Line 154: f"Error generating SQL with LLM: {e}"
GenerationError(e) == <<"Error generating SQL with LLM: ", e>>

\* Line 163: f"Error executing SQL: {e}"
ExecutionError(e) == <<"Error executing SQL: ", e>>

\* No value yet.
Unset == <<>>

\* No prompt yet.
NoPrompt == [schema |-> <<>>, question |-> 0]

(***************************************************************************)
(* Setup, lines 20-135.                                                    *)
(***************************************************************************)
Init ==
    /\ pc = "read_seed"
    /\ exitCause = "none"
    /\ loaded = <<>>
    /\ db = <<>>
    /\ artistCheck = "none"
    /\ schema = <<>>
    /\ schemaFail = 0
    /\ schemaRaised = "none"
    /\ qi = 0
    /\ stage = "NotStarted"
    /\ prompt = NoPrompt
    /\ completion = Unset
    /\ llmRaised = "none"
    /\ sql_query = Unset
    /\ result = Unset
    /\ execRaised = "none"
    /\ llmCalls = 0
    /\ execCalls = 0
    /\ printed = <<>>

loopVars == <<qi, stage, prompt, completion, llmRaised, sql_query, result,
              execRaised, llmCalls, execCalls, printed>>

\* exit(1) in the handler named by cause.
Exit(cause) ==
    /\ pc' = "exit"
    /\ exitCause' = cause

\* Lines 26-34: read the seed script.
ReadSeed ==
    /\ pc = "read_seed"
    /\ \/ pc' = "load_db" /\ UNCHANGED exitCause
       \/ Exit("seed_not_found")
       \/ Exit("seed_unreadable")
    /\ UNCHANGED <<loaded, db, artistCheck, schema, schemaFail, schemaRaised,
                   loopVars>>

\* Lines 36-44: run the seed script on Chinook.db.
LoadDb ==
    /\ pc = "load_db"
    /\ \/ \E d \in Databases :
            /\ loaded' = d
            /\ db' = d
            /\ pc' = "check_artist"
            /\ UNCHANGED exitCause
       \/ Exit("db_load") /\ UNCHANGED <<loaded, db>>
    /\ UNCHANGED <<artistCheck, schema, schemaFail, schemaRaised, loopVars>>

\* Lines 47-55: count the rows of Artist; an error is printed and ignored.
CheckArtist ==
    /\ pc = "check_artist"
    /\ \/ /\ \E k \in 1..Len(db) : db[k].name = "Artist"
          /\ artistCheck' = "ok"
       \/ artistCheck' = "error"
    /\ pc' = "connect"
    /\ UNCHANGED <<exitCause, loaded, db, schema, schemaFail, schemaRaised,
                   loopVars>>

\* Lines 60-65: open the connection the rest of the script uses.
Connect ==
    /\ pc = "connect"
    /\ \/ pc' = "display_schema" /\ UNCHANGED exitCause
       \/ Exit("connect")
    /\ UNCHANGED <<loaded, db, artistCheck, schema, schemaFail, schemaRaised,
                   loopVars>>

\* Line 89: schema = display_schema(cursor).
DisplaySchema ==
    /\ pc = "display_schema"
    /\ \E failAt \in 0..(Len(UserTables(db)) + 1), e \in Errors :
          /\ schema' = DisplaySchemaText(db, failAt, e)
          /\ schemaFail' = failAt
          /\ schemaRaised' = IF failAt <= Len(UserTables(db)) THEN e ELSE "none"
    /\ pc' = "api_key"
    /\ UNCHANGED <<exitCause, loaded, db, artistCheck, loopVars>>

\* A handler that prints the error and forgets exit(1): the mutant of
\* LoadApiKey.
LoadApiKeyNoExit ==
    /\ pc = "api_key"
    /\ pc' = "build_chain"
    /\ \/ UNCHANGED exitCause
       \/ exitCause' = "api_key"
    /\ UNCHANGED <<loaded, db, artistCheck, schema, schemaFail, schemaRaised,
                   loopVars>>

\* Lines 99-107: load the API key.
LoadApiKey ==
    /\ pc = "api_key"
    /\ \/ pc' = "build_chain" /\ UNCHANGED exitCause
       \/ Exit("api_key")
    /\ UNCHANGED <<loaded, db, artistCheck, schema, schemaFail, schemaRaised,
                   loopVars>>

\* Lines 109-188: template, model, chain, display options; the loop starts.
BuildChain ==
    /\ pc = "build_chain"
    /\ pc' = "loop"
    /\ qi' = 1
    /\ stage' = "Start"
    /\ UNCHANGED <<exitCause, loaded, db, artistCheck, schema, schemaFail,
                   schemaRaised, prompt, completion, llmRaised, sql_query, result,
                   execRaised, llmCalls, execCalls, printed>>

(***************************************************************************)
(* The question loop, lines 188-197, and process_question, lines 143-164.  *)
(***************************************************************************)
\* The completions the model may return in the loop: bare SQL, SQL in a
\* fence with and without the sql tag, a fence that is not closed, a lone
\* fence, and SQL with whitespace around it.
Completions ==
    { <<"x">>,
      FenceSql \o <<"\n", "x", "\n">> \o Fence,
      Fence \o <<"\n", "x", "\n">> \o Fence,
      FenceSql \o <<" ", "x">>,
      Fence,
      <<" ", "x", "\n">> }

setupVars == <<pc, exitCause, loaded, artistCheck, schema, schemaFail,
               schemaRaised>>

\* The mapping handed to chain.invoke that reads the database again: the
\* mutant of PromptInput.
PromptInputFresh(q) ==
    [schema |-> DisplaySchemaText(db, Len(UserTables(db)) + 1, "E1"),
     question |-> q]

\* Line 152: {"schema": schema, "question": question}.
PromptInput(q) == [schema |-> schema, question |-> q]

\* Line 152: the prompt template is filled from the global schema.
BuildPrompt ==
    /\ pc = "loop"
    /\ stage = "Start"
    /\ prompt' = PromptInput(qi)
    /\ stage' = "PromptBuilt"
    /\ UNCHANGED <<setupVars, db, qi, completion, llmRaised, sql_query, result,
                   execRaised, llmCalls, execCalls, printed>>

\* Line 152: chain.invoke returns the completion t; sql_query is t.strip().
GenerateOk(t) ==
    /\ pc = "loop"
    /\ stage = "PromptBuilt"
    /\ completion' = t
    /\ sql_query' = Strip(t)
    /\ llmCalls' = llmCalls + 1
    /\ stage' = "QueryGenerated"
    /\ UNCHANGED <<setupVars, db, qi, prompt, llmRaised, result, execRaised,
                   execCalls, printed>>

\* A handler that logs the failure and goes on to execute: the mutant of
\* GenerateRaise.
GenerateRaiseFallThrough(e) ==
    /\ pc = "loop"
    /\ stage = "PromptBuilt"
    /\ llmRaised' = e
    /\ llmCalls' = llmCalls + 1
    /\ sql_query' = NoneValue
    /\ result' = GenerationError(e)
    /\ stage' = "Sanitized"
    /\ UNCHANGED <<setupVars, db, qi, prompt, completion, execRaised,
                   execCalls, printed>>

\* Lines 153-154: chain.invoke raises e; process_question returns
\* (None, "Error generating SQL with LLM: e").
GenerateRaise(e) ==
    /\ pc = "loop"
    /\ stage = "PromptBuilt"
    /\ llmRaised' = e
    /\ llmCalls' = llmCalls + 1
    /\ sql_query' = NoneValue
    /\ result' = GenerationError(e)
    /\ stage' = "GenerationFailed"
    /\ UNCHANGED <<setupVars, db, qi, prompt, completion, execRaised,
                   execCalls, printed>>

\* Lines 156-159: strip the code block markers.
SanitizeStep ==
    /\ pc = "loop"
    /\ stage = "QueryGenerated"
    /\ sql_query' = StripFence(sql_query)
    /\ stage' = "Sanitized"
    /\ UNCHANGED <<setupVars, db, qi, prompt, completion, llmRaised, result,
                   execRaised, llmCalls, execCalls, printed>>

\* Line 161: pd.read_sql_query returns a DataFrame.
ExecuteOk ==
    /\ pc = "loop"
    /\ stage = "Sanitized"
    /\ result' = DataFrame
    /\ execCalls' = execCalls + 1
    /\ stage' = "Executed"
    /\ UNCHANGED <<setupVars, db, qi, prompt, completion, llmRaised, sql_query,
                   execRaised, llmCalls, printed>>

\* The table list without its k-th table.
DropTable(d, k) == SubSeq(d, 1, k - 1) \o SubSeq(d, k + 1, Len(d))

\* The databases a statement that raised may leave behind: the same one, or,
\* for a DROP TABLE (which ran before read_sql_query found no result set),
\* one table fewer.
AfterFailedStatement(d) == {d} \cup {DropTable(d, k) : k \in 1..Len(d)}

\* process_question without the handler of lines 162-163: the exception
\* leaves process_question and ends the script.  The mutant of ExecuteFail.
ExecuteFailUncaught(e) ==
    /\ pc = "loop"
    /\ stage = "Sanitized"
    /\ execRaised' = e
    /\ execCalls' = execCalls + 1
    /\ db' \in AfterFailedStatement(db)
    /\ pc' = "exit"
    /\ exitCause' = "uncaught"
    /\ UNCHANGED <<loaded, artistCheck, schema, schemaFail, schemaRaised, qi,
                   stage, prompt,
                   completion, llmRaised, sql_query, result, llmCalls, printed>>

\* Lines 162-163: pd.read_sql_query raises e; result is the message.
ExecuteFail(e) ==
    /\ pc = "loop"
    /\ stage = "Sanitized"
    /\ execRaised' = e
    /\ execCalls' = execCalls + 1
    /\ db' \in AfterFailedStatement(db)
    /\ result' = ExecutionError(e)
    /\ stage' = "ExecutionFailed"
    /\ UNCHANGED <<setupVars, qi, prompt, completion, llmRaised, sql_query,
                   llmCalls, printed>>

\* The stages in which process_question has returned to the loop.
Returned == {"GenerationFailed", "Executed", "ExecutionFailed"}

\* A driver that asks again when the result is an error message: the mutant
\* of Report.
ReportOrRetry ==
    /\ pc = "loop"
    /\ stage \in Returned
    /\ IF result = DataFrame
       THEN /\ printed' = Append(printed, qi)
            /\ stage' = "Reported"
            /\ UNCHANGED <<prompt, completion, llmRaised, sql_query, result,
                           execRaised, llmCalls, execCalls>>
       ELSE /\ stage' = "Start"
            /\ prompt' = NoPrompt
            /\ completion' = Unset
            /\ llmRaised' = "none"
            /\ sql_query' = Unset
            /\ result' = Unset
            /\ execRaised' = "none"
            /\ llmCalls' = 0
            /\ execCalls' = 0
            /\ UNCHANGED printed
    /\ UNCHANGED <<setupVars, db, qi>>

\* Lines 190-197: print the question, the SQL and the result.
Report ==
    /\ pc = "loop"
    /\ stage \in Returned
    /\ printed' = Append(printed, qi)
    /\ stage' = "Reported"
    /\ UNCHANGED <<setupVars, db, qi, prompt, completion, llmRaised, sql_query,
                   result, execRaised, llmCalls, execCalls>>

\* A loop that steps over every other question: the mutant of NextIndex.
NextIndexSkipping(k) == k + 2

\* Line 188: the for loop takes the questions in list order.
NextIndex(k) == k + 1

\* Line 188: the next iteration of the loop, or its end.
NextQuestion ==
    /\ pc = "loop"
    /\ stage = "Reported"
    /\ IF NextIndex(qi) <= NumQuestions
       THEN /\ qi' = NextIndex(qi)
            /\ stage' = "Start"
            /\ prompt' = NoPrompt
            /\ completion' = Unset
            /\ llmRaised' = "none"
            /\ sql_query' = Unset
            /\ result' = Unset
            /\ execRaised' = "none"
            /\ llmCalls' = 0
            /\ execCalls' = 0
            /\ UNCHANGED pc
       ELSE /\ pc' = "done"
            /\ UNCHANGED <<qi, stage, prompt, completion, llmRaised, sql_query,
                           result, execRaised, llmCalls, execCalls>>
    /\ UNCHANGED <<exitCause, loaded, db, artistCheck, schema, schemaFail,
                   schemaRaised, printed>>

Next ==
    \/ ReadSeed
    \/ LoadDb
    \/ CheckArtist
    \/ Connect
    \/ DisplaySchema
    \/ LoadApiKey
    \/ BuildChain
    \/ BuildPrompt
    \/ \E t \in Completions : GenerateOk(t)
    \/ \E e \in Errors : GenerateRaise(e)
    \/ SanitizeStep
    \/ ExecuteOk
    \/ \E e \in Errors : ExecuteFail(e)
    \/ Report
    \/ NextQuestion

Spec == Init /\ [][Next]_vars

\* The script runs one statement after another: a step that can be taken is
\* taken.
LiveSpec == Spec /\ WF_vars(Next)

(***************************************************************************)
(* The Response Sanitizer on its own: lines 152-159 applied to every       *)
(* completion made of at most MaxPieces pieces.                            *)
(***************************************************************************)
Pieces == {Fence, <<Backtick>>, <<"s", "q", "l">>, <<"s">>, <<" ">>, <<"x">>}

RECURSIVE Concats(_)
Concats(n) ==
    IF n = 0
    THEN {<<>>}
    ELSE Concats(n - 1) \cup {t \o p : t \in Concats(n - 1), p \in Pieces}

Texts == Concats(MaxPieces)

\* A database for the sanitizer's runs: the first two tables of the catalog.
SampleDb == SubSeq(Catalog, 1, 2)

\* process_question for the first question, chain.invoke having returned.
InitSan ==
    /\ pc = "loop"
    /\ exitCause = "none"
    /\ loaded = SampleDb
    /\ db = SampleDb
    /\ artistCheck = "ok"
    /\ schema = DisplaySchemaText(SampleDb, Len(UserTables(SampleDb)) + 1, "E1")
    /\ schemaFail = Len(UserTables(SampleDb)) + 1
    /\ schemaRaised = "none"
    /\ qi = 1
    /\ stage = "QueryGenerated"
    /\ prompt = PromptInput(1)
    /\ completion \in Texts
    /\ sql_query = Strip(completion)
    /\ llmRaised = "none"
    /\ result = Unset
    /\ execRaised = "none"
    /\ llmCalls = 1
    /\ execCalls = 0
    /\ printed = <<>>

NextSan == SanitizeStep

SanSpec == InitSan /\ [][NextSan]_vars

(***************************************************************************)
(* C1, C6: the Response Sanitizer.                                         *)
(***************************************************************************)
\* The text opens with a fence and closes with another one.
WellFenced(s) ==
    /\ Len(s) >= 2 * Len(Fence)
    /\ StartsWith(s, Fence)
    /\ EndsWith(s, Fence)

\* What lies between the opening fence, with its sql tag if it has one, and
\* the closing fence of a well-fenced text.
Interior(s) ==
    IF StartsWith(s, FenceSql)
    THEN SubSeq(s, Len(FenceSql) + 1, Len(s) - Len(Fence))
    ELSE SubSeq(s, Len(Fence) + 1, Len(s) - Len(Fence))

\* What C1 says the sanitizer returns for the completion t.
FenceContract(t) ==
    IF WellFenced(Strip(t)) THEN Strip(Interior(Strip(t))) ELSE Strip(t)

\* C1: a completion wrapped in a well-formed fence (with or without the
\* language tag) is sanitized to its trimmed interior, and any other
\* completion, one with a single fence included, to its trimmed text.
C1_FenceStripping ==
    stage = "Sanitized" => sql_query = FenceContract(completion)

\* The text starts with a fence and ends with a fence.
FenceDelimited(s) == StartsWith(s, Fence) /\ EndsWith(s, Fence)

\* C6 as stated: sanitizing the sanitizer's output returns it unchanged, for
\* every completion.
C6_Idempotent ==
    stage = "Sanitized" => Sanitizer(sql_query) = sql_query

\* C6 as amended: sanitizing the sanitizer's output returns it unchanged
\* exactly when that output does not itself start and end with a fence.
C6_IdempotentUnlessNested ==
    stage = "Sanitized" =>
        ((Sanitizer(sql_query) = sql_query) <=> ~FenceDelimited(sql_query))

\* A fence was stripped, whitespace inside it was trimmed, and what is left
\* is stable under the sanitizer.
C6_Witness ==
    /\ stage = "Sanitized"
    /\ WellFenced(Strip(completion))
    /\ Interior(Strip(completion)) # sql_query
    /\ ~FenceDelimited(sql_query)
    /\ sql_query # <<>>
    /\ Sanitizer(sql_query) = sql_query

(***************************************************************************)
(* C7, C8, C10: the schema description.                                    *)
(***************************************************************************)
\* display_schema has returned.
SchemaBuilt ==
    \/ pc \in {"api_key", "build_chain", "loop", "done"}
    \/ pc = "exit" /\ exitCause = "api_key"

\* The user tables of a database: every table but sqlite_sequence.
NonInternal(d) == SelectSeq(d, LAMBDA t : t.name # "sqlite_sequence")

\* The "table:" headers of a schema text, and its column lines.
TableHeaders(text) == SelectSeq(text, LAMBDA l : l[1] = "table: ")

ColumnEntries(text) == SelectSeq(text, LAMBDA l : l[1] = "  - ")

\* The columns of the tables ts, one after the other.
RECURSIVE AllColumns(_)
AllColumns(ts) ==
    IF ts = <<>> THEN <<>> ELSE Head(ts).columns \o AllColumns(Tail(ts))

\* C7: when the enumeration raised nothing, the schema text holds one
\* "table:" header per user table of the database (sqlite_sequence left
\* out) and one column line per column of these tables, both in metadata
\* order.
C7_SchemaCounts ==
    (SchemaBuilt /\ schemaRaised = "none") =>
        LET user == NonInternal(loaded)
            heads == TableHeaders(schema)
            cols == ColumnEntries(schema)
            meta == AllColumns(user)
        IN  /\ Len(heads) = Len(user)
            /\ \A k \in 1..Len(user) : heads[k] = <<"table: ", user[k].name>>
            /\ Len(cols) = Len(meta)
            /\ \A k \in 1..Len(meta) :
                  cols[k] = <<"  - ", meta[k].name, " (", meta[k].type, ")">>

\* Two user tables and sqlite_sequence were introspected without an error.
C7_Witness ==
    /\ SchemaBuilt
    /\ schemaRaised = "none"
    /\ Len(NonInternal(loaded)) = 2
    /\ Len(loaded) = 3
    /\ Len(TableHeaders(schema)) = 2
    /\ Len(ColumnEntries(schema)) = Len(AllColumns(NonInternal(loaded)))

\* The full block of each of the tables ts.
RECURSIVE FullBlocks(_)
FullBlocks(ts) ==
    IF ts = <<>>
    THEN <<>>
    ELSE << <<"table: ", Head(ts).name>>, <<"Columns:">> >> \o
         [k \in 1..Len(Head(ts).columns) |->
             <<"  - ", Head(ts).columns[k].name, " (",
               Head(ts).columns[k].type, ")">>] \o
         << <<"">> >> \o FullBlocks(Tail(ts))

\* The text gathered when the enumeration raises at step k: nothing for the
\* sqlite_master query (k = 0); for the PRAGMA of the k-th user table, the
\* blocks of the tables before it and its own two header lines.
GatheredBefore(d, k) ==
    IF k = 0
    THEN <<>>
    ELSE FullBlocks(SubSeq(NonInternal(d), 1, k - 1)) \o
         << <<"table: ", NonInternal(d)[k].name>>, <<"Columns:">> >>

\* C8: when the enumeration raises inside display_schema, the schema is the
\* text gathered before the failure followed by the error message, the
\* failure ends nothing (only the later API key step can still exit), and
\* every prompt of the loop carries that partial text.
C8_PartialSchema ==
    (schemaRaised # "none") =>
        /\ schema = GatheredBefore(loaded, schemaFail) \o
                    << <<"Error extracting schema: ", schemaRaised>> >>
        /\ exitCause \in {"none", "api_key"}
        /\ pc \in {"api_key", "build_chain", "loop", "done", "exit"}
        /\ (prompt # NoPrompt => prompt.schema = schema)

\* The PRAGMA of a table raised, and the loop ran to its end with the partial
\* text in the prompt.
C8_Witness ==
    /\ schemaRaised # "none"
    /\ schemaFail >= 1
    /\ Len(schema) > 1
    /\ pc = "done"
    /\ prompt.schema = schema

\* C10: once display_schema has returned, the schema text never changes, and
\* the prompt of every question carries it, whatever has happened to the
\* database since.
C10_SchemaFrozen ==
    [][/\ (SchemaBuilt => schema' = schema)
       /\ (prompt' # NoPrompt => prompt'.schema = schema)]_vars

\* A statement of an earlier question dropped a table, and the prompt of a
\* later question still names it.
C10_Witness ==
    /\ pc = "loop"
    /\ stage = "PromptBuilt"
    /\ qi > 1
    /\ db # loaded
    /\ schemaRaised = "none"
    /\ prompt.schema = schema
    /\ schema # FullBlocks(NonInternal(db))
    /\ schema = FullBlocks(NonInternal(loaded))

(***************************************************************************)
(* C2, C3, C4, C9: process_question and the loop.                          *)
(***************************************************************************)
\* C2: when chain.invoke raises, the executor is not called for the
\* question, no SQL is returned, and the result is the generation error
\* with the exception's message.
C2_GenerationError ==
    (llmRaised # "none") =>
        /\ execCalls = 0
        /\ execRaised = "none"
        /\ sql_query = NoneValue
        /\ result = <<"Error generating SQL with LLM: ", llmRaised>>
        /\ stage \in {"GenerationFailed", "Reported"}

\* The generation of a question failed and the question was reported.
C2_Witness ==
    /\ llmRaised # "none"
    /\ stage = "Reported"
    /\ printed # <<>>
    /\ printed[Len(printed)] = qi
    /\ execCalls = 0

\* Every question has been printed, in list order.
AllReported ==
    /\ pc = "done"
    /\ printed = [k \in 1..NumQuestions |-> k]

\* C3: when pd.read_sql_query raises, the result is the execution error
\* message, the script is not ended by it, and the loop ends only with every
\* question printed.
C3_ExecutionError ==
    /\ (execRaised # "none") =>
          /\ result = <<"Error executing SQL: ", execRaised>>
          /\ exitCause = "none"
          /\ pc \in {"loop", "done"}
          /\ stage \in {"ExecutionFailed", "Reported"}
    /\ (pc = "loop" => ENABLED Next)
    /\ (pc = "done" => AllReported)

\* The statement of a question before the last raised; the question was
\* printed and the loop is at a later question.
C3_Witness ==
    /\ execRaised # "none"
    /\ stage = "Reported"
    /\ qi < NumQuestions
    /\ printed[Len(printed)] = qi
    /\ result = ExecutionError(execRaised)

\* The results a question may be reported with.
Outcomes ==
    {DataFrame} \cup {GenerationError(e) : e \in Errors}
                \cup {ExecutionError(e) : e \in Errors}

\* C4: once the loop has started, every question is eventually reported,
\* and a reported question has a table or an error message as its result.
C4_EveryQuestionReported ==
    /\ [](stage = "Reported" => result \in Outcomes)
    /\ (pc = "loop") ~> AllReported

\* The last question has been reported with an error message.
C4_Witness ==
    /\ AllReported
    /\ result # DataFrame
    /\ result \in Outcomes

\* C9: the questions are printed in list order without a gap; no step of a
\* question is taken before the question before it is printed; chain.invoke
\* is called once and pd.read_sql_query at most once for a question.
C9_Sequential ==
    /\ printed = [k \in 1..Len(printed) |-> k]
    /\ (pc \in {"loop", "done"} =>
          Len(printed) = IF stage = "Reported" THEN qi ELSE qi - 1)
    /\ (pc \notin {"loop", "done"} => printed = <<>> /\ stage = "NotStarted")
    /\ llmCalls = (IF stage \in {"NotStarted", "Start", "PromptBuilt"} THEN 0 ELSE 1)
    /\ execCalls =
          (IF stage \in {"Executed", "ExecutionFailed"} \/
              (stage = "Reported" /\ llmRaised = "none")
           THEN 1 ELSE 0)

\* The third question is being executed and exactly the first two are
\* printed.
C9_Witness ==
    /\ pc = "loop"
    /\ qi = 3
    /\ stage = "Executed"
    /\ printed = <<1, 2>>
    /\ llmCalls = 1
    /\ execCalls = 1

(***************************************************************************)
(* C5: the exits of the setup.                                             *)
(***************************************************************************)
\* No question has been touched.
NothingProcessed ==
    /\ stage = "NotStarted"
    /\ llmCalls = 0
    /\ execCalls = 0
    /\ printed = <<>>
    /\ prompt = NoPrompt

\* C5 as stated: the script ends early, with no question touched, exactly
\* when the seed script cannot be read, the load fails or the API key is
\* missing; otherwise it runs on until every question is printed.
C5_ThreeExits ==
    /\ (exitCause # "none" => pc = "exit" /\ NothingProcessed)
    /\ (pc = "exit" =>
          exitCause \in {"seed_not_found", "seed_unreadable", "db_load",
                         "api_key"})
    /\ (pc \notin {"exit", "done"} => ENABLED Next)
    /\ (pc = "done" => AllReported)

\* C5 as amended: the same, with the failure to open the connection of
\* lines 60-65 as a fourth cause of an early exit.
C5_FourExits ==
    /\ (exitCause # "none" => pc = "exit" /\ NothingProcessed)
    /\ (pc = "exit" =>
          exitCause \in {"seed_not_found", "seed_unreadable", "db_load",
                         "connect", "api_key"})
    /\ (pc \notin {"exit", "done"} => ENABLED Next)
    /\ (pc = "done" => AllReported)

\* The API key was missing: the script ended after the schema was built and
\* before any question.
C5_Witness ==
    /\ pc = "exit"
    /\ exitCause = "api_key"
    /\ schema # <<>>
    /\ NothingProcessed

====
